---------------------------- MODULE Spec2Model ----------------------------
(***************************************************************************)
(* Model of src/src/main.ts: the note scheduler (note$), the fall ticker   *)
(* of every spawned circle (moveCircle), the key handler (keys$ /          *)
(* handleKeyPress), the audio trigger (playSound) and the game clock       *)
(* (tick$ / source$).                                                      *)
(*                                                                         *)
(* Time is the session time in milliseconds since main() ran.  Every      *)
(* timer of the program (delay, interval(10), interval(500)) is set for a  *)
(* multiple of 10 ms for the tracks below, so the clock advances in steps  *)
(* of 10 ms; the callbacks due at one instant and the key presses run one  *)
(* at a time (single-threaded), in any order.                              *)
(*                                                                         *)
(* The timers are the host's and the host may run a callback late: a       *)
(* timer that is due either runs or is put off by one clock step.  What    *)
(* an interval does after a late emission is the host's choice, which the  *)
(* source does not fix: the next emission comes one period after the late  *)
(* one (the lateness is kept) or on the interval's original schedule (the  *)
(* lateness is given up).  For the 10 ms ticker, whose period is the clock *)
(* step, both are the same: the periods missed are lost.  No timer runs    *)
(* early.                                                                  *)
(*                                                                         *)
(* Note times are kept in milliseconds (the CSV's seconds * 1000).         *)
(* A callback that throws is reported by the stream library and its        *)
(* subscription stays subscribed (rxjs 7).                                 *)
(***************************************************************************)
EXTENDS Integers, Sequences, FiniteSets, TLC

VARIABLES
    notes,               \* loadCSV's result: the track, note i has id i - 1
    now,                 \* nominal session time, ms
    emitted,             \* ids note$ has emitted
    cy,                  \* id -> the circle's "cy" attribute
    svgChildren,         \* ids whose circle is attached to the canvas
    userPlayedNotesMap,  \* keys of the registry map (note ids)
    activeNotes,         \* Key -> the lane's list of note ids
    accumY,              \* id -> accumulator of the ticker's scan
    moveAlive,           \* ids whose ticker is still subscribed
    sounds,              \* the playSound calls made so far, in order
    ticks,               \* emissions of tick$ so far
    state,               \* the latest GameState snapshot of source$
    gameover,            \* "visibility" of the game-over element
    lag,                 \* id -> clock steps the note's timers have run late
    clockLag             \* clock steps tick$'s next emission is behind schedule

vars == <<notes, now, emitted, cy, svgChildren, userPlayedNotesMap,
          activeNotes, accumY, moveAlive, sounds, ticks, state, gameover,
          lag, clockLag>>

-----------------------------------------------------------------------------
(* Program constants *)

CANVAS_HEIGHT == 400

TICK_RATE_MS == 500

MOVE_PERIOD_MS == 10

MOVE_INCREMENT == 2

LEAD_MS == 3500

targetZone == 360

ZONE_TOLERANCE == 10

\* RNG.m - 1 = 2^31 - 1 (RNG.m itself is 2^31; all arithmetic below stays
\* within -(2^31 - 1) .. 2^31 - 1)
RNG_M1 == 2147483647

RNG_a == 1103515245

RNG_c == 12345

Keys == <<"KeyH", "KeyJ", "KeyK", "KeyL">>

KeySet == {Keys[i] : i \in 1..Len(Keys)}

cxValues == <<20, 40, 60, 80>>

\* the instruments SampleLibrary.load is asked for
Samples == {"bass-electric", "violin", "piano", "trumpet", "saxophone",
            "trombone", "flute"}

\* playSound's duration parameter when the caller omits it
NoDuration == [num |-> 0, milli |-> 0, den |-> 0]

-----------------------------------------------------------------------------
(* Bounds *)

\* the session is followed up to this time (ms)
MaxTime == 3600

\* key presses whose playSound throws are followed up to this many
MaxKeyErrors == 2

\* the length of the track the lane assignment is followed on (ids 0 ..
\* MaxLaneNotes - 1)
MaxLaneNotes == 150

\* the clock steps the timers are followed running behind, all in all
MaxLag == 3

-----------------------------------------------------------------------------
(* Tracks: the data rows of a CSV and loadCSV.  The start and end columns *)
(* are kept in ms (the CSV's seconds * 1000).                          *)

\* one data row: user_played, instrument_name, velocity, pitch, start, end
Row(user_played, instrument_name, start, end) ==
    [user_played |-> user_played, instrument_name |-> instrument_name,
     velocity |-> 127, pitch |-> 60, start |-> start, end |-> end]

\* loadCSV: id is the row's index (0-based) among the non-empty rows,
\* user_played is the test against "True", velocity is divided by 127
loadCSV(rows) ==
    [i \in 1..Len(rows) |->
        [id |-> i - 1,
         user_played |-> rows[i].user_played = "True",
         instrument |-> rows[i].instrument_name,
         velocity |-> [num |-> rows[i].velocity, den |-> 127],
         pitch |-> rows[i].pitch,
         startTime |-> rows[i].start,
         endTime |-> rows[i].end]]

Tracks ==
    { <<>>,
      << Row("True", "piano", 3500, 4000) >>,
      << Row("True", "piano", 3500, 4000),
         Row("False", "violin", 2000, 2500),
         Row("True", "flute", 3600, 4000) >>,
      << Row("True", "kazoo", 3500, 4000),
         Row("True", "piano", 3550, 4000),
         Row("True", "piano", 3500, 5000) >>,
      << Row("False", "kazoo", 2000, 2500),
         Row("True", "piano", 1000, 2000),
         Row("False", "piano", 2000, 2500),
         Row("True", "kazoo", 3600, 4000) >> }

Ids == {notes[i].id : i \in 1..Len(notes)}

NoteOf(id) == notes[id + 1]

-----------------------------------------------------------------------------
(* RNG and lane assignment *)

\* (x + y) % 2^31 for x, y in 0 .. 2^31 - 1
AddModM(x, y) ==
    IF x > RNG_M1 - y THEN x - (RNG_M1 - y) - 1 ELSE x + y

\* (x * k) % 2^31 for x in 0 .. 2^31 - 1 and a natural k
RECURSIVE MulModM(_, _)
MulModM(x, k) ==
    IF k = 0 THEN 0
    ELSE IF k % 2 = 1 THEN AddModM(x, MulModM(x, k - 1))
    ELSE LET h == MulModM(x, k \div 2) IN AddModM(h, h)

\* RNG.hash, for a natural seed; the program computes it in doubles, which
\* is this exact value as long as RNG.a * seed + RNG.c < 2^53 (seed up to
\* 8162277)
hash(seed) == AddModM(MulModM(RNG_a, seed), RNG_c)

\* RNG.hash for a seed of ms / 1000 (a time in seconds), as the value
\* whole + milli / 1000: with ms = 1000 s + k,
\* a * ms / 1000 = a * s + (a \div 1000) * k + ((a % 1000) * k) / 1000
hashOfMs(ms) ==
    LET s == ms \div 1000
        k == ms % 1000
        r == (RNG_a % 1000) * k
        q == (RNG_a \div 1000) * k + r \div 1000
    IN  [whole |-> AddModM(AddModM(MulModM(RNG_a, s), q), RNG_c),
         milli |-> r % 1000]

\* RNG.scale: (2 * hash) / (m - 1) - 1 for hash = whole + milli / 1000, as
\* the value (num + milli / 1000) / den
scale(h) ==
    [num |-> (h.whole - RNG_M1) + h.whole, milli |-> 2 * h.milli,
     den |-> RNG_M1]

\* mutant of laneIndex: Math.round instead of Math.floor, i.e.
\* floor(4 h / (m - 1) + 1 / 2): the number of i in 1..4 with
\* h >= ceil((2 i - 1) (m - 1) / 8)
laneIndex_Round(h) ==
    LET q == RNG_M1 \div 8
        r == RNG_M1 % 8
    IN  Cardinality({i \in 1..4 :
            h >= (2 * i - 1) * q + ((2 * i - 1) * r + 7) \div 8})

\* Math.floor((scaledValue + 1) / 2 * 4) = floor(4 h / (m - 1)): the number
\* of i in 1..4 with i (m - 1) <= 4 h, i.e. h >= ceil(i (m - 1) / 4)
laneIndex(h) ==
    LET q == RNG_M1 \div 4
        r == RNG_M1 % 4
    IN  Cardinality({i \in 1..4 : h >= i * q + (i * r + 3) \div 4})

\* what indexing cxValues past its end gives (no lane value)
undefinedCx == 0 - 1

\* getCx: cxValues[index], undefined when the index is 4
getCx(seed) ==
    LET index == laneIndex(hash(seed))
    IN  IF index + 1 \in DOMAIN cxValues THEN cxValues[index + 1]
        ELSE undefinedCx

-----------------------------------------------------------------------------
(* playSound *)

\* the pseudo-random duration of a missed note: RNG.scale(RNG.hash(endTime)),
\* endTime in seconds
missDuration(note) == scale(hashOfMs(note.endTime))

\* duration || note.endTime - note.startTime, in seconds as the value
\* (num + milli / 1000) / den; an omitted duration and the duration 0 give
\* the right-hand side
soundDuration(note, duration) ==
    IF \/ duration.den = 0
       \/ /\ duration.num = 0 - duration.milli \div 1000
          /\ duration.milli % 1000 = 0
    THEN [num |-> note.endTime - note.startTime, milli |-> 0, den |-> 1000]
    ELSE duration

\* playSound(note, samples, duration): the call as it lands on the audio
\* sink; threw = samples[note.instrument] is undefined (TypeError)
playSound(note, duration) ==
    [id |-> note.id,
     arg |-> duration,
     duration |-> soundDuration(note, duration),
     velocity |-> note.velocity,
     threw |-> note.instrument \notin Samples]

-----------------------------------------------------------------------------
(* Scheduling: note$ *)

\* mutant of noteDelay: the lead time subtracted for every note
noteDelay_LeadForAll(note) == note.startTime - LEAD_MS

\* the delay note$ gives a note: startTime * 1000 - 3500 for a player note,
\* startTime * 1000 otherwise
noteDelay(note) ==
    IF note.user_played THEN note.startTime - LEAD_MS ELSE note.startTime

\* delay(d) with d <= 0 emits on the next timer turn, at time 0
fireAt(note) == IF noteDelay(note) < 0 THEN 0 ELSE noteDelay(note)

\* the keys createCircleNote's forEach adds the note to
lanesOf(note) ==
    {Keys[i] : i \in {j \in 1..Len(Keys) : getCx(note.id) = 20 + (j - 1) * 20}}

\* mutant of addNoteToKey: the test of the note's cx against the key's
\* forgotten, the note pushed on every key
addNoteToKey_EveryKey(lists, note) ==
    [k \in DOMAIN lists |-> Append(lists[k], note.id)]

\* addNoteToKey on every key createCircleNote selects
addNoteToKey(lists, note) ==
    [k \in DOMAIN lists |->
        IF k \in lanesOf(note) THEN Append(lists[k], note.id) ELSE lists[k]]

\* createCircleNote: a circle at cy = 0 on the canvas, a registry entry, the
\* lane list, and moveCircle's subscription
createCircleNote(note) ==
    /\ cy' = [cy EXCEPT ![note.id] = 0]
    /\ svgChildren' = svgChildren \cup {note.id}
    /\ userPlayedNotesMap' = userPlayedNotesMap \cup {note.id}
    /\ activeNotes' = addNoteToKey(activeNotes, note)
    /\ accumY' = [accumY EXCEPT ![note.id] = 0]
    /\ moveAlive' = moveAlive \cup {note.id}
    /\ UNCHANGED sounds

\* note$.subscribe's callback
onNote(note) ==
    IF note.user_played
    THEN createCircleNote(note)
    ELSE /\ sounds' = Append(sounds, playSound(note, NoDuration))
         /\ UNCHANGED <<cy, svgChildren, userPlayedNotesMap, activeNotes,
                        accumY, moveAlive>>

\* the clock steps the notes' timers have run late so far, all in all
RECURSIVE SumLag(_)
SumLag(S) ==
    IF S = {} THEN 0
    ELSE LET id == CHOOSE x \in S : TRUE IN lag[id] + SumLag(S \ {id})

totalLag == clockLag + SumLag(Ids)

\* the time the delay timer of a note not yet emitted runs next
emitAt(id) == fireAt(NoteOf(id)) + MOVE_PERIOD_MS * lag[id]

EmitNote(id) ==
    /\ id \in Ids \ emitted
    /\ emitAt(id) <= now
    /\ emitted' = emitted \cup {id}
    /\ onNote(NoteOf(id))
    /\ UNCHANGED <<notes, now, ticks, state, gameover, lag, clockLag>>

\* the host does not run the note's delay timer at this instant
EmitLate(id) ==
    /\ id \in Ids \ emitted
    /\ emitAt(id) <= now
    /\ totalLag < MaxLag
    /\ lag' = [lag EXCEPT ![id] = lag[id] + 1]
    /\ UNCHANGED <<notes, now, emitted, cy, svgChildren, userPlayedNotesMap,
                   activeNotes, accumY, moveAlive, sounds, ticks, state,
                   gameover, clockLag>>

-----------------------------------------------------------------------------
(* Fall ticker: moveCircle *)

\* the time the ticker of a spawned note emits next: one period after its
\* last emission (after the spawn for the first)
nextMoveAt(id) ==
    fireAt(NoteOf(id))
        + MOVE_PERIOD_MS * (lag[id] + accumY[id] \div MOVE_INCREMENT + 1)

\* mutant of moveCircle: the bottom of the canvas tested with > instead of >=
moveCircle_StrictBottom(id, updatedY) ==
    IF updatedY <= CANVAS_HEIGHT
    THEN /\ cy' = [cy EXCEPT ![id] = updatedY]
         /\ IF updatedY > CANVAS_HEIGHT
            THEN /\ svgChildren' = svgChildren \ {id}
                 /\ sounds' = Append(sounds,
                        playSound(NoteOf(id), missDuration(NoteOf(id))))
            ELSE UNCHANGED <<svgChildren, sounds>>
         /\ UNCHANGED moveAlive
    ELSE /\ moveAlive' = moveAlive \ {id}
         /\ UNCHANGED <<cy, svgChildren, sounds>>

\* mutant of moveCircle: takeWhile forgotten, the ticker never completes
moveCircle_NoTakeWhile(id, updatedY) ==
    /\ cy' = [cy EXCEPT ![id] = updatedY]
    /\ IF updatedY >= CANVAS_HEIGHT
       THEN /\ svgChildren' = svgChildren \ {id}
            /\ sounds' = Append(sounds,
                   playSound(NoteOf(id), missDuration(NoteOf(id))))
       ELSE UNCHANGED <<svgChildren, sounds>>
    /\ UNCHANGED moveAlive

\* one emission of interval(10) through scan, takeWhile and the subscriber
moveCircle(id, updatedY) ==
    IF updatedY <= CANVAS_HEIGHT
    THEN /\ cy' = [cy EXCEPT ![id] = updatedY]
         /\ IF updatedY >= CANVAS_HEIGHT
            THEN /\ svgChildren' = svgChildren \ {id}
                 /\ sounds' = Append(sounds,
                        playSound(NoteOf(id), missDuration(NoteOf(id))))
            ELSE UNCHANGED <<svgChildren, sounds>>
         /\ UNCHANGED moveAlive
    ELSE /\ moveAlive' = moveAlive \ {id}
         /\ UNCHANGED <<cy, svgChildren, sounds>>

MoveStep(id) ==
    /\ id \in moveAlive
    /\ nextMoveAt(id) <= now
    /\ accumY' = [accumY EXCEPT ![id] = accumY[id] + MOVE_INCREMENT]
    /\ moveCircle(id, accumY[id] + MOVE_INCREMENT)
    /\ UNCHANGED <<notes, now, emitted, userPlayedNotesMap, activeNotes,
                   ticks, state, gameover, lag, clockLag>>

\* the host does not run the ticker's interval at this instant
MoveLate(id) ==
    /\ id \in moveAlive
    /\ nextMoveAt(id) <= now
    /\ totalLag < MaxLag
    /\ lag' = [lag EXCEPT ![id] = lag[id] + 1]
    /\ UNCHANGED <<notes, now, emitted, cy, svgChildren, userPlayedNotesMap,
                   activeNotes, accumY, moveAlive, sounds, ticks, state,
                   gameover, clockLag>>

-----------------------------------------------------------------------------
(* Key input: keys$ and handleKeyPress *)

\* mutant of isNoteInTargetZone: the upper limit of the zone forgotten
isNoteInTargetZone_NoUpper(circleY) ==
    circleY >= targetZone - ZONE_TOLERANCE

isNoteInTargetZone(circleY) ==
    circleY >= targetZone - ZONE_TOLERANCE /\ circleY <= targetZone + ZONE_TOLERANCE

\* mutant of handleKeyPress: userPlayedNotesMap.delete forgotten
handleKeyPress_NoDelete(st, key, id) ==
    IF id \in st.map /\ isNoteInTargetZone(cy[id])
    THEN LET call == playSound(NoteOf(id), NoDuration)
         IN  IF call.threw
             THEN [st EXCEPT !.snd = Append(st.snd, call), !.threw = TRUE]
             ELSE [st EXCEPT !.snd = Append(st.snd, call),
                             !.dom = st.dom \ {id}]
    ELSE st

\* handleKeyPress on the store st = [map, dom, snd, threw]; a throwing
\* playSound leaves the rest of the handler undone
handleKeyPress(st, key, id) ==
    IF id \in st.map /\ isNoteInTargetZone(cy[id])
    THEN LET call == playSound(NoteOf(id), NoDuration)
         IN  IF call.threw
             THEN [st EXCEPT !.snd = Append(st.snd, call), !.threw = TRUE]
             ELSE [st EXCEPT !.snd = Append(st.snd, call),
                             !.dom = st.dom \ {id},
                             !.map = st.map \ {id}]
    ELSE st

\* notesForKey.forEach(note => handleKeyPress(key, note)); an exception ends
\* the loop
RECURSIVE forEachNote(_, _, _)
forEachNote(st, key, list) ==
    IF list = <<>> \/ st.threw THEN st
    ELSE forEachNote(handleKeyPress(st, key, Head(list)), key, Tail(list))

\* the outcome of keys$.subscribe's callback for a keydown of `key`
keyResult(key) ==
    forEachNote([map |-> userPlayedNotesMap, dom |-> svgChildren,
                 snd |-> sounds, threw |-> FALSE],
                key, activeNotes[key])

\* the key presses so far that ended in playSound's TypeError
keyErrors == Cardinality({i \in 1..Len(sounds) :
                 sounds[i].threw /\ sounds[i].arg = NoDuration
                                /\ NoteOf(sounds[i].id).user_played})

KeyDown(key) ==
    /\ key \in KeySet
    /\ keyResult(key).threw => keyErrors < MaxKeyErrors
    /\ LET st == keyResult(key)
       IN  /\ userPlayedNotesMap' = st.map
           /\ svgChildren' = st.dom
           /\ sounds' = st.snd
    /\ UNCHANGED <<notes, now, emitted, cy, activeNotes, accumY, moveAlive,
                   ticks, state, gameover, lag, clockLag>>

-----------------------------------------------------------------------------
(* Game clock: tick$ and source$ *)

initialState ==
    [gameEnd |-> FALSE, score |-> 0, highscore |-> 0, multiplier |-> 0,
     currentTime |-> 0, notes |-> <<>>]

tick(s) == s

\* mutant of scanState: the score accumulates, the highscore is forgotten
scanState_ScoreOnly(s) == [s EXCEPT !.score = s.score + 1]

\* mutant of scanState: the score goes down on a tick
scanState_ScoreDown(s) == [s EXCEPT !.score = s.score - 1]

\* the accumulator function of source$'s scan: (s) => ({ ...initialState })
scanState(s) == initialState

\* show / hide of the game-over element
visibilityFor(s) == IF s.gameEnd THEN "visible" ELSE "hidden"

\* the time tick$ emits next: its place on the schedule of one emission
\* per period, and the clock steps it is behind that
nextTickAt == TICK_RATE_MS * (ticks + 1) + MOVE_PERIOD_MS * clockLag

\* an emission of tick$ through source$; the host sets the next emission
\* one period after this one (the lateness kept) or back on the schedule
ClockTick ==
    /\ nextTickAt <= now
    /\ ticks' = ticks + 1
    /\ state' = scanState(state)
    /\ gameover' = visibilityFor(scanState(state))
    /\ clockLag' \in {clockLag, 0}
    /\ UNCHANGED <<notes, now, emitted, cy, svgChildren, userPlayedNotesMap,
                   activeNotes, accumY, moveAlive, sounds, lag>>

\* the host does not run tick$'s interval at this instant
ClockLate ==
    /\ nextTickAt <= now
    /\ totalLag < MaxLag
    /\ clockLag' = clockLag + 1
    /\ UNCHANGED <<notes, now, emitted, cy, svgChildren, userPlayedNotesMap,
                   activeNotes, accumY, moveAlive, sounds, ticks, state,
                   gameover, lag>>

-----------------------------------------------------------------------------
(* The timeline *)

\* some timer callback is due at the current instant
TimerDue ==
    \/ \E id \in Ids \ emitted : emitAt(id) <= now
    \/ \E id \in moveAlive : nextMoveAt(id) <= now
    \/ nextTickAt <= now

\* time passes once every timer due has run or has been put off
Advance ==
    /\ ~TimerDue
    /\ now + MOVE_PERIOD_MS <= MaxTime
    /\ now' = now + MOVE_PERIOD_MS
    /\ UNCHANGED <<notes, emitted, cy, svgChildren, userPlayedNotesMap,
                   activeNotes, accumY, moveAlive, sounds, ticks, state,
                   gameover, lag, clockLag>>

Init ==
    /\ notes \in {loadCSV(rows) : rows \in Tracks}
    /\ now = 0
    /\ emitted = {}
    /\ cy = [id \in Ids |-> 0]
    /\ svgChildren = {}
    /\ userPlayedNotesMap = {}
    /\ activeNotes = [k \in KeySet |-> <<>>]
    /\ accumY = [id \in Ids |-> 0]
    /\ moveAlive = {}
    /\ sounds = <<>>
    /\ ticks = 0
    /\ state = initialState
    /\ gameover = "initial"
    /\ lag = [id \in Ids |-> 0]
    /\ clockLag = 0

Next ==
    \/ \E id \in Ids : EmitNote(id)
    \/ \E id \in Ids : MoveStep(id)
    \/ \E key \in KeySet : KeyDown(key)
    \/ ClockTick
    \/ \E id \in Ids : EmitLate(id)
    \/ \E id \in Ids : MoveLate(id)
    \/ ClockLate
    \/ Advance

Spec == Init /\ [][Next]_vars

\* A track of MaxLaneNotes player notes that are all due at once, at time
\* 0: their delay timers run in the order mergeMap subscribed them, the
\* track's order, and each runs createCircleNote.
LaneTrack == [i \in 1..MaxLaneNotes |-> Row("True", "piano", 0, 1000)]

LaneInit ==
    /\ notes = loadCSV(LaneTrack)
    /\ now = 0
    /\ emitted = {}
    /\ cy = [id \in Ids |-> 0]
    /\ svgChildren = {}
    /\ userPlayedNotesMap = {}
    /\ activeNotes = [k \in KeySet |-> <<>>]
    /\ accumY = [id \in Ids |-> 0]
    /\ moveAlive = {}
    /\ sounds = <<>>
    /\ ticks = 0
    /\ state = initialState
    /\ gameover = "initial"
    /\ lag = [id \in Ids |-> 0]
    /\ clockLag = 0

LaneNext == \E id \in Ids : id = Cardinality(emitted) /\ EmitNote(id)

LaneSpec == LaneInit /\ [][LaneNext]_vars

\* the session without key input: only the program's timers run
NextNoKeys ==
    \/ \E id \in Ids : EmitNote(id)
    \/ \E id \in Ids : MoveStep(id)
    \/ ClockTick
    \/ \E id \in Ids : EmitLate(id)
    \/ \E id \in Ids : MoveLate(id)
    \/ ClockLate
    \/ Advance

\* a due timer callback eventually runs, and so does the clock
SpecNoKeys == Init /\ [][NextNoKeys]_vars /\ WF_vars(NextNoKeys)

-----------------------------------------------------------------------------
(* Vocabulary of the properties *)

\* every id a track of Tracks uses
TrackIds == UNION {{i - 1 : i \in 1..Len(rows)} : rows \in Tracks}

PlayerIds == {id \in Ids : NoteOf(id).user_played}

\* the playSound calls for a note: from a key press or the scheduler (no
\* duration passed), and from the fall ticker (a duration passed)
CallsOf(id) == {i \in 1..Len(sounds) : sounds[i].id = id}

HitCalls(id) == Cardinality({i \in CallsOf(id) : sounds[i].arg = NoDuration})

MissCalls(id) == Cardinality({i \in CallsOf(id) : sounds[i].arg # NoDuration})

\* the note was resolved as a hit: a key press played it
WasHit(id) ==
    /\ id \in PlayerIds
    /\ \E i \in CallsOf(id) : sounds[i].arg = NoDuration /\ ~sounds[i].threw

\* the note was force-missed: it is at the bottom and the fallback call
\* was made
WasMissed(id) ==
    /\ id \in PlayerIds
    /\ cy[id] = CANVAS_HEIGHT
    /\ MissCalls(id) >= 1

\* the ids in the lane's list that have a registry entry and are in the zone
Hittable(key) ==
    {id \in Ids : /\ id \in userPlayedNotesMap
                  /\ \E i \in 1..Len(activeNotes[key]) : activeNotes[key][i] = id
                  /\ isNoteInTargetZone(cy[id])}

\* this step resolves the note as a hit: played and out of the registry
HitStep(id) ==
    /\ id \in userPlayedNotesMap
    /\ id \notin userPlayedNotesMap'
    /\ HitCalls(id)' = HitCalls(id) + 1

\* the forced miss of a note has run to its end: the note is at the
\* boundary, one fallback-duration call was made, the ticker has stopped
NoteForceMissed(id) ==
    /\ id \in PlayerIds
    /\ cy[id] = CANVAS_HEIGHT
    /\ MissCalls(id) = 1
    /\ \A i \in CallsOf(id) :
          /\ sounds[i].arg = missDuration(NoteOf(id))
          /\ sounds[i].duration = missDuration(NoteOf(id))
    /\ id \notin moveAlive

\* the places (key, position) of a note id in the lane lists
PlacesOf(id) ==
    {p \in KeySet \X (1..Len(notes)) :
        p[2] \in 1..Len(activeNotes[p[1]]) /\ activeNotes[p[1]][p[2]] = id}

-----------------------------------------------------------------------------
(* C1..C10 *)

\* C1 (as claimed): a note resolved as a hit gets no fallback-duration
\* playback afterwards and its position is not updated any more (it stays
\* where it was hit, inside the zone)
C1_NoMissAfterHit ==
    \A id \in Ids :
        WasHit(id) => MissCalls(id) = 0 /\ isNoteInTargetZone(cy[id])

\* C2: a note is resolved as a hit at most once: once hit it has exactly one
\* hit playback and no registry entry, whatever is pressed afterwards
C2_HitAtMostOnce ==
    \A id \in Ids :
        WasHit(id) => HitCalls(id) = 1 /\ id \notin userPlayedNotesMap

\* C2 witness: two notes of one lane were hit by two presses, so the later
\* press ran handleKeyPress on the note already hit
C2_Witness ==
    \E key \in KeySet : \E i, j \in 1..Len(sounds) :
        /\ i < j
        /\ sounds[i].id # sounds[j].id
        /\ WasHit(sounds[i].id) /\ WasHit(sounds[j].id)
        /\ sounds[i].arg = NoDuration /\ sounds[j].arg = NoDuration
        /\ \A id \in {sounds[i].id, sounds[j].id} :
              \E n \in 1..Len(activeNotes[key]) : activeNotes[key][n] = id

\* C3: after a note's forced miss (the fallback call at the boundary) no
\* later playback is made for it: no key press hits it, in either order of
\* the boundary tick and the press
C3_NoHitAfterMiss ==
    \A i, j \in 1..Len(sounds) :
        (i < j /\ sounds[i].arg # NoDuration) => sounds[j].id # sounds[i].id

\* C3 witness: a note was force-missed, was never hit and still has its
\* registry entry, so a press on its lane still reaches handleKeyPress
C3_Witness ==
    \E id \in Ids :
        /\ WasMissed(id)
        /\ id \in userPlayedNotesMap
        /\ id \notin moveAlive
        /\ \E key \in KeySet :
              \E n \in 1..Len(activeNotes[key]) : activeNotes[key][n] = id

\* C4 (as claimed): once a note's position has reached the miss boundary
\* its registry entry no longer exists
C4_MissRemovesEntry ==
    \A id \in PlayerIds :
        (id \in emitted /\ cy[id] >= CANVAS_HEIGHT) => id \notin userPlayedNotesMap

\* C5 (as claimed): a key press resolves exactly the notes of its lane that
\* have a registry entry and are within the tolerance of the hit line; with
\* no such note it makes no playback and changes nothing
C5_HitIffInZone ==
    [][\A key \in KeySet :
          KeyDown(key) =>
            /\ \A id \in Ids : HitStep(id) <=> id \in Hittable(key)
            /\ Hittable(key) = {} =>
                 UNCHANGED <<userPlayedNotesMap, activeNotes, cy, sounds>>]_vars

\* C6 (as claimed): with two or more notes of one lane inside the hit window,
\* one key press on the lane resolves every one of them
C6_AllInZoneHit ==
    [][\A key \in KeySet :
          (KeyDown(key) /\ Cardinality(Hittable(key)) >= 2) =>
              \A id \in Hittable(key) : HitStep(id)]_vars

\* C7: with no key press, every spawned player note is eventually
\* force-missed: at the boundary, with exactly one fallback-duration
\* playback, its ticker stopped; and never more than one fallback playback
C7_EventuallyMissed ==
    \A id \in TrackIds :
        /\ (id \in PlayerIds /\ id \in emitted) ~> NoteForceMissed(id)
        /\ [](id \in Ids => MissCalls(id) <= 1)

\* C7 witness: a never-pressed note has been force-missed
C7_Witness ==
    \E id \in PlayerIds :
        NoteForceMissed(id) /\ HitCalls(id) = 0 /\ id \in userPlayedNotesMap

\* C8 (as claimed): a player note scheduled at startTime - lead (lead not
\* above startTime) is on the hit line at session time startTime
C8_OnHitLineAtStart ==
    \A id \in PlayerIds :
        (NoteOf(id).startTime >= LEAD_MS /\ now = NoteOf(id).startTime /\ ~TimerDue)
            => (id \in emitted /\ cy[id] = targetZone)

\* C9: a non-player note is played exactly once, by the timer set for
\* startTime (never before startTime, and once that timer has run, which is
\* at startTime unless the host ran it late), with the duration
\* endTime - startTime, and never gets a registry entry, a circle or a
\* place in a lane list
C9_AutoPlayOnce ==
    \A id \in Ids \ PlayerIds :
        /\ now < NoteOf(id).startTime => CallsOf(id) = {}
        /\ now > NoteOf(id).startTime + MOVE_PERIOD_MS * lag[id]
              => Cardinality(CallsOf(id)) = 1
        /\ id \in emitted <=> Cardinality(CallsOf(id)) = 1
        /\ Cardinality(CallsOf(id)) <= 1
        /\ \A i \in CallsOf(id) :
              /\ sounds[i].arg = NoDuration
              /\ sounds[i].duration =
                   [num |-> NoteOf(id).endTime - NoteOf(id).startTime,
                    milli |-> 0, den |-> 1000]
        /\ id \notin userPlayedNotesMap
        /\ id \notin svgChildren
        /\ \A key \in KeySet :
              \A i \in 1..Len(activeNotes[key]) : activeNotes[key][i] # id

\* C9 witness: a non-player note has been played at its startTime while a
\* player note is in flight
C9_Witness ==
    \E id \in Ids \ PlayerIds :
        /\ now = NoteOf(id).startTime
        /\ CallsOf(id) # {}
        /\ userPlayedNotesMap # {}

\* C10 (as claimed): on a track of one player note, every snapshot the game
\* clock produces after the note was hit has a score above the initial 0
C10_ScoreAfterHit ==
    [][(Len(notes) = 1 /\ WasHit(0) /\ HitCalls(0) = 1 /\ ticks' = ticks + 1)
          => state'.score > initialState.score]_vars

-----------------------------------------------------------------------------
(* C11..C20 *)

\* C11 (as claimed): the snapshot the game clock takes after a hit, with no
\* miss so far, has a multiplier above the floor value (a hit strictly
\* increases the multiplier; a miss puts it back to the floor)
C11_HitRaisesMultiplier ==
    [][((\E id \in Ids : WasHit(id)) /\ (\A id \in Ids : MissCalls(id) = 0)
            /\ ticks' = ticks + 1)
          => state'.multiplier > initialState.multiplier]_vars

\* C12 (as claimed): once every note has fired and no player note is in
\* flight, the next game-clock tick gives gameEnd = TRUE and shows the
\* game-over element
C12_GameEndsWhenDone ==
    [][(emitted = Ids /\ moveAlive = {} /\ ticks' = ticks + 1)
          => (state'.gameEnd /\ gameover' = "visible")]_vars

\* C13: highscore >= score in every snapshot of the game clock
C13_HighscoreAboveScore == state.highscore >= state.score

\* C13 witness: a snapshot taken after a hit and after a forced miss
C13_Witness ==
    /\ ticks >= 1
    /\ TICK_RATE_MS * ticks = now
    /\ \E id \in Ids : WasHit(id)
    /\ \E id \in Ids : WasMissed(id)

\* C14: the score never decreases from one snapshot to the next
C14_ScoreNeverDecreases == [][state'.score >= state.score]_vars

\* C14 witness: two or more snapshots, the last one taken after a hit that
\* was followed by a forced miss of another note
C14_Witness ==
    /\ ticks >= 2
    /\ \E id \in Ids : WasHit(id) /\ ~WasMissed(id)
    /\ \E id \in Ids : WasMissed(id) /\ ~WasHit(id)

\* C15 (as claimed): every game-clock tick gives a snapshot whose
\* currentTime is above the one before
C15_CurrentTimeIncreases ==
    [][ticks' = ticks + 1 => state'.currentTime > state.currentTime]_vars

\* C16: for every id of the track, getCx's index is in 0..3, its value is
\* one of 20, 40, 60, 80, and createCircleNote puts the note in exactly one
\* lane list, once: the list of the key at that index, whatever was spawned
\* before
C16_OneLanePerId ==
    \A id \in emitted :
        /\ laneIndex(hash(id)) \in 0..3
        /\ getCx(id) \in {20, 40, 60, 80}
        /\ getCx(id) = 20 + 20 * laneIndex(hash(id))
        /\ PlacesOf(id) # {}
        /\ \A p \in PlacesOf(id) : p[1] = Keys[laneIndex(hash(id)) + 1]
        /\ Cardinality(PlacesOf(id)) = 1

\* C16 witness: a hundred ids and more were assigned, and every one of the
\* four lanes got some
C16_Witness ==
    /\ Cardinality(emitted) >= 100
    /\ \A key \in KeySet : activeNotes[key] # <<>>

\* C17 (as claimed): a key press and a fall step of a note of its lane that
\* fall on the same instant give the same verdict in either order: the note
\* is in the zone before the step exactly if it is after it
C17_SameVerdictEitherOrder ==
    \A id \in moveAlive \cap userPlayedNotesMap :
        (nextMoveAt(id) <= now /\ accumY[id] + MOVE_INCREMENT <= CANVAS_HEIGHT)
            => (isNoteInTargetZone(cy[id])
                  <=> isNoteInTargetZone(accumY[id] + MOVE_INCREMENT))

\* C18 (as claimed): a key press resolves every note of its lane that is in
\* the zone and whose instrument is loaded, also when another note of the
\* press has an instrument that is not loaded; and a note due is emitted
\* whatever was played before
C18_OtherNotesStillResolved ==
    [][\A key \in KeySet :
          KeyDown(key) =>
             \A id \in Hittable(key) :
                 NoteOf(id).instrument \in Samples => HitStep(id)]_vars

\* C19: the position of a spawned note is even and within 0..400, it is 2
\* for every 10 ms fall step since the spawn up to 400 (so it starts at 0
\* and never decreases; the steps are the periods of 10 ms since the note
\* was due, less those its timers ran late), and the ticker has ended once
\* the emission after 400 has run
C19_PositionLaw ==
    \A id \in PlayerIds \cap emitted :
        LET steps == (now - fireAt(NoteOf(id))) \div MOVE_PERIOD_MS - lag[id]
            fallen == IF MOVE_INCREMENT * steps > CANVAS_HEIGHT
                      THEN CANVAS_HEIGHT ELSE MOVE_INCREMENT * steps
        IN  /\ cy[id] \in 0..CANVAS_HEIGHT
            /\ cy[id] % MOVE_INCREMENT = 0
            /\ cy[id] \in {fallen - MOVE_INCREMENT, fallen}
            /\ ~TimerDue => cy[id] = fallen
            /\ id \notin moveAlive => cy[id] = CANVAS_HEIGHT
            /\ (~TimerDue /\ MOVE_INCREMENT * steps > CANVAS_HEIGHT)
                  => id \notin moveAlive

\* C19 witness: a note has fallen to 400 and its ticker has ended while
\* another note is still on its way, and a note's timers have run late
C19_Witness ==
    /\ \E id \in PlayerIds \cap emitted :
          cy[id] = CANVAS_HEIGHT /\ id \notin moveAlive
    /\ \E id \in moveAlive : cy[id] > 0 /\ cy[id] < CANVAS_HEIGHT
    /\ \E id \in PlayerIds \cap emitted : lag[id] > 0

\* C20: every id with a registry entry, and every spawned note, hit or
\* missed or in flight, is in exactly one lane list, exactly once: the
\* lists keep their notes
C20_OnePlacePerNote ==
    /\ userPlayedNotesMap \subseteq PlayerIds \cap emitted
    /\ \A id \in PlayerIds \cap emitted : Cardinality(PlacesOf(id)) = 1
    /\ \A id \in Ids \ (PlayerIds \cap emitted) : PlacesOf(id) = {}

\* C20 witness: a lane list holds a note that was hit, a note that was
\* missed and is still in the registry, both after their ticker ended
C20_Witness ==
    \E key \in KeySet : \E i, j \in 1..Len(activeNotes[key]) :
        /\ WasHit(activeNotes[key][i])
        /\ activeNotes[key][i] \notin moveAlive
        /\ WasMissed(activeNotes[key][j])
        /\ activeNotes[key][j] \in userPlayedNotesMap
        /\ activeNotes[key][j] \notin moveAlive

=============================================================================
